---- MODULE Spec2Model ----
(***************************************************************************)
(* The event log of a Condottieri game (condottieri_events/models.py).     *)
(*                                                                         *)
(* Every recorder log_*(sender) checks the type of its sender, reads a few *)
(* attributes of the sender and of the objects it points to, and hands     *)
(* them to log_event, which builds one event of the given class and saves  *)
(* it.  The model keeps the saved events in the sequence `log`, in the     *)
(* order they were saved.                                                  *)
(*                                                                         *)
(* Values.  Objects of the game engine (machiavelli) and of the scenario   *)
(* are named by strings; Python's None is the string "None".  Python's     *)
(* integers are integers, and its strings are strings.  A field the        *)
(* constructor was not given keeps the field's default: 0 for              *)
(* ExpenseEvent.ducats, the empty string for a CharField that is not       *)
(* null=True, None for every other field.  An event maps exactly the       *)
(* fields that were given or have another default than None.               *)
(*                                                                         *)
(* The store keeps to the columns the classes declare.  BaseEvent is a     *)
(* concrete model, so save() inserts the BaseEvent row first and the row   *)
(* of the event's own class after it, in one transaction: a NULL in a      *)
(* column that is not declared null=True makes the insert raise            *)
(* IntegrityError, save() raises it out of log_event and of the recorder,  *)
(* and nothing is written.                                                 *)
(***************************************************************************)
EXTENDS Integers, Sequences, FiniteSets, TLC

VARIABLES
    game,       \* game id -> [year, season, phase]: the games' current turn
    log,        \* the saved events, oldest first
    last,       \* the latest recorder call: [fn, sender, raised, made, ret]
    deleted,    \* the games, countries and areas that have been deleted
    advances    \* how many times a game has moved to its next phase

vars == <<game, log, last, deleted, advances>>

(***************************************************************************)
(* Bounds of the model.                                                    *)
(***************************************************************************)
MaxAdvance == 1

None == "None"

(***************************************************************************)
(* The enumerations, models.py lines 41-115.  item(c, i, j) is c[i][j]     *)
(* with Python's indices, which start at 0.                                *)
(***************************************************************************)
UNIT_EVENTS ==
    << <<0, "cannot carry out its support order.">>,
       <<1, "must retreat.">>,
       <<2, "surrenders.">>,
       <<3, "starts a siege.">>,
       <<4, "changes country.">>,
       <<5, "becomes autonomous.">> >>

COUNTRY_EVENTS ==
    << <<0, "has been overthrown.">>,
       <<1, "has been conquered.">>,
       <<2, "has been excommunicated.">>,
       <<3, "has been eliminated.">>,
       <<4, "has been assassinated.">>,
       <<5, "has been forgiven.">>,
       <<6, "has suffered an assassination attempt.">> >>

DISASTER_EVENTS ==
    << <<0, "Famine">>,
       <<1, "Plague">>,
       <<2, "Rebellion">>,
       <<3, "Storm">> >>

SEASONS == << <<1, "Spring">>, <<2, "Summer">>, <<3, "Fall">> >>

GAME_PHASES ==
    << <<0, "Inactive game">>,
       <<1, "Military adjustments">>,
       <<2, "Order writing">>,
       <<3, "Retreats">>,
       <<4, "Strategic movement">> >>

UNIT_TYPES == << <<"A", "Army">>, <<"F", "Fleet">>, <<"G", "Garrison">> >>

ORDER_CODES ==
    << <<"H", "Hold">>, <<"B", "Besiege">>, <<"-", "Advance">>,
       <<"=", "Conversion">>, <<"C", "Convoy">>, <<"S", "Support">> >>

ORDER_SUBCODES == << <<"H", "Hold">>, <<"-", "Advance">>, <<"=", "Conversion">> >>

EXPENSE_TYPES ==
    << <<0, "Famine relief">>,
       <<1, "Pacify rebellion">>,
       <<2, "Conquered province to rebel">>,
       <<3, "Home province to rebel">>,
       <<4, "Counter bribe">>,
       <<5, "Disband autonomous garrison">>,
       <<6, "Buy autonomous garrison">>,
       <<7, "Convert garrison unit">>,
       <<8, "Disband enemy unit">>,
       <<9, "Buy enemy unit">>,
       <<10, "Hire a diplomat in own area">>,
       <<11, "Hire a diplomat in foreign area">> >>

item(choices, i, j) == choices[i + 1][j + 1]

\* The codes of an enumeration: what a field declared with choices= may hold.
Codes(choices) == {choices[i][1] : i \in 1..Len(choices)}

(***************************************************************************)
(* The objects a signal can carry.  They belong to the game engine and to  *)
(* the scenario; the recorders only read them.  Each object has a class    *)
(* and the attributes the recorders read.  Two games: g1 is in Fall 1505,  *)
(* Retreats; an Army of France stands in Venice.                           *)
(***************************************************************************)
Games == {"g1", "g2"}
Countries == {"France", "Milan"}
Areas == {"Venice", "Naples"}

Heap ==
    [ g1  |-> [class |-> "Game"],
      g2  |-> [class |-> "Game"],
      p1  |-> [class |-> "Player", game |-> "g1", country |-> "France"],
      p2  |-> [class |-> "Player", game |-> "g2", country |-> "Milan"],
      ga1 |-> [class |-> "GameArea", game |-> "g1", board_area |-> "Venice",
               player |-> "p1"],
      ga2 |-> [class |-> "GameArea", game |-> "g1", board_area |-> "Naples",
               player |-> "p1"],
      ga3 |-> [class |-> "GameArea", game |-> "g2", board_area |-> "Naples",
               player |-> "p2"],
      u1  |-> [class |-> "Unit", player |-> "p1", type |-> "A", area |-> "ga1",
               destination |-> "ga2", conversion |-> "G"],
      u2  |-> [class |-> "Unit", player |-> "p1", type |-> "F", area |-> "ga2",
               destination |-> "ga1", conversion |-> "A"],
      \* a hold: no destination, no second unit, no sub-order
      o1  |-> [class |-> "Order", unit |-> "u1", code |-> "H",
               destination |-> None, conversion |-> None, subunit |-> None,
               subcode |-> None, subdestination |-> None,
               subconversion |-> None],
      \* a support of the advance of u2 to Venice
      o2  |-> [class |-> "Order", unit |-> "u1", code |-> "S",
               destination |-> None, conversion |-> None, subunit |-> "u2",
               subcode |-> "-", subdestination |-> "ga1",
               subconversion |-> None],
      \* an advance whose sub-order fields are set though it has no second unit
      o3  |-> [class |-> "Order", unit |-> "u1", code |-> "-",
               destination |-> "ga2", conversion |-> None, subunit |-> None,
               subcode |-> "H", subdestination |-> "ga2",
               subconversion |-> "A"],
      \* a support of the conversion of u2, which has no destination
      o4  |-> [class |-> "Order", unit |-> "u1", code |-> "S",
               destination |-> None, conversion |-> None, subunit |-> "u2",
               subcode |-> "=", subdestination |-> None,
               subconversion |-> "A"],
      r1  |-> [class |-> "Revolution", game |-> "g1", country |-> "France"],
      e1  |-> [class |-> "Expense", player |-> "p1", ducats |-> 3, type |-> 0,
               unit |-> None],
      e2  |-> [class |-> "Expense", player |-> "p1", ducats |-> 9, type |-> 8,
               unit |-> "u1"],
      d1  |-> [class |-> "Diplomat", player |-> "p1", area |-> "ga2"],
      ce1 |-> [class |-> "CountryEvent", game |-> "g2", country |-> "Milan",
               message |-> 1],
      de1 |-> [class |-> "DisasterEvent", game |-> "g2", area |-> "ga3",
               message |-> 3] ]

\* The attributes that point to another object or to a scenario entity.
RefAttrs ==
    {"game", "player", "country", "area", "board_area", "destination", "unit",
     "subunit", "subdestination"}

\* Everything an object points to, directly or not, and itself.
RECURSIVE Reach(_)
Reach(o) ==
    IF o \notin DOMAIN Heap
    THEN {o}
    ELSE {o} \cup UNION {Reach(Heap[o][a]) : a \in RefAttrs \cap DOMAIN Heap[o]}

(***************************************************************************)
(* Python's evaluation of an attribute chain.  The result of an expression *)
(* is [ok, v]: its value, or ok = FALSE when evaluating it raised (an      *)
(* attribute of None, or an attribute the object does not have).           *)
(***************************************************************************)
Ok(v) == [ok |-> TRUE, v |-> v]

Raised == [ok |-> FALSE, v |-> None]

getattr(o, name) ==
    IF o.ok /\ o.v \in DOMAIN Heap /\ name \in DOMAIN Heap[o.v]
    THEN Ok(Heap[o.v][name])
    ELSE Raised

attr(o, a) == getattr(Ok(o), a)

attr2(o, a, b) == getattr(attr(o, a), b)

attr3(o, a, b, c) == getattr(attr2(o, a, b), c)

\* isinstance(obj, get_machiavelli_models().<cls>)
isinstance_any(obj, cls) == obj \in DOMAIN Heap

isinstance(obj, cls) == obj \in DOMAIN Heap /\ Heap[obj].class = cls

\* try: x = <expression> / except: x = None
try_or_None(e) == IF e.ok THEN e ELSE Ok(None)

\* the truth value of an object reference in `if sender.unit:`
truthy(v) == v # None

(***************************************************************************)
(* The event classes, models.py lines 117-547: the foreign keys of each    *)
(* class with its on_delete rule, and the defaults of its fields that are  *)
(* not None.                                                               *)
(***************************************************************************)
BaseEvent == [game |-> "CASCADE"]

on_delete(event_class) ==
    BaseEvent @@
    CASE event_class = "NewUnitEvent" ->
            [country |-> "CASCADE", area |-> "CASCADE"]
      [] event_class = "DisbandEvent" ->
            [country |-> "CASCADE", area |-> "CASCADE"]
      [] event_class = "OrderEvent" ->
            [country |-> "CASCADE", origin |-> "CASCADE",
             destination |-> "CASCADE", suborigin |-> "CASCADE",
             subdestination |-> "CASCADE"]
      [] event_class = "StandoffEvent" -> [area |-> "CASCADE"]
      [] event_class = "ConversionEvent" ->
            [country |-> "CASCADE", area |-> "CASCADE"]
      [] event_class = "ControlEvent" ->
            [country |-> "CASCADE", area |-> "CASCADE"]
      [] event_class = "MovementEvent" ->
            [country |-> "CASCADE", origin |-> "CASCADE",
             destination |-> "CASCADE"]
      [] event_class = "RetreatEvent" ->
            [country |-> "CASCADE", origin |-> "CASCADE",
             destination |-> "CASCADE"]
      [] event_class = "UnitEvent" ->
            [country |-> "CASCADE", area |-> "CASCADE"]
      [] event_class = "ExpenseEvent" ->
            [country |-> "CASCADE", area |-> "CASCADE"]
      [] event_class = "UncoverEvent" ->
            [country |-> "CASCADE", area |-> "CASCADE"]
      [] event_class = "CountryEvent" -> [country |-> "CASCADE"]
      [] event_class = "DisasterEvent" -> [area |-> "CASCADE"]
      [] event_class = "IncomeEvent" -> [country |-> "CASCADE"]

\* What the constructor gives a field it is not passed, where that is not
\* None: the declared default, and the empty string for a CharField that is
\* not null=True.
field_defaults(event_class) ==
    [classname |-> ""] @@
    CASE event_class \in {"NewUnitEvent", "DisbandEvent", "MovementEvent",
                          "RetreatEvent", "UnitEvent"} -> [type |-> ""]
      [] event_class = "OrderEvent" -> [type |-> "", code |-> ""]
      [] event_class = "ConversionEvent" -> [before |-> "", after |-> ""]
      [] event_class = "ExpenseEvent" -> [ducats |-> 0]
      [] OTHER -> << >>

(***************************************************************************)
(* The columns of the tables.  BaseEvent's table holds the header, the     *)
(* table of each event class the fields the class adds.  A column takes    *)
(* NULL only when its field is declared null=True.                         *)
(***************************************************************************)
BaseColumns == {"game", "year", "season", "phase", "classname"}

columns(event_class) ==
    CASE event_class \in {"NewUnitEvent", "DisbandEvent"}
            -> {"country", "type", "area"}
      [] event_class = "OrderEvent"
            -> {"country", "type", "origin", "code", "destination",
                "conversion", "subtype", "suborigin", "subcode",
                "subdestination", "subconversion"}
      [] event_class = "StandoffEvent" -> {"area"}
      [] event_class = "ConversionEvent"
            -> {"country", "area", "before", "after"}
      [] event_class \in {"ControlEvent", "UncoverEvent"}
            -> {"country", "area"}
      [] event_class \in {"MovementEvent", "RetreatEvent"}
            -> {"country", "type", "origin", "destination"}
      [] event_class = "UnitEvent" -> {"country", "type", "area", "message"}
      [] event_class = "ExpenseEvent"
            -> {"country", "ducats", "type", "area", "unit_type"}
      [] event_class = "CountryEvent" -> {"country", "message"}
      [] event_class = "DisasterEvent" -> {"area", "message"}
      [] event_class = "IncomeEvent" -> {"country", "ducats"}

\* The fields declared null=True.
nullable(event_class) ==
    CASE event_class \in {"DisbandEvent", "ConversionEvent", "ControlEvent",
                          "MovementEvent", "RetreatEvent", "UnitEvent"}
            -> {"country"}
      [] event_class = "OrderEvent"
            -> {"destination", "conversion", "subtype", "suborigin",
                "subcode", "subdestination", "subconversion"}
      [] event_class = "ExpenseEvent" -> {"area", "unit_type"}
      [] OTHER -> {}

\* The fields declared PositiveIntegerField, besides the header's.
PositiveIntegerField(event_class) ==
    CASE event_class \in {"UnitEvent", "CountryEvent", "DisasterEvent"}
            -> {"message"}
      [] event_class = "ExpenseEvent" -> {"ducats", "type"}
      [] event_class = "IncomeEvent" -> {"ducats"}
      [] OTHER -> {}

\* The header's fields declared PositiveIntegerField.
BasePositiveIntegerField == {"year", "season", "phase"}

\* The fields declared CharField.
CharField(event_class) ==
    {"classname"} \cup
    CASE event_class \in {"NewUnitEvent", "DisbandEvent", "MovementEvent",
                          "RetreatEvent", "UnitEvent"} -> {"type"}
      [] event_class = "OrderEvent"
            -> {"type", "code", "conversion", "subtype", "subcode",
                "subconversion"}
      [] event_class = "ConversionEvent" -> {"before", "after"}
      [] event_class = "ExpenseEvent" -> {"unit_type"}
      [] OTHER -> {}

\* The fields declared ForeignKey, and the objects of the class each points
\* to: machiavelli.Game, scenarios.Country, scenarios.Area.
ForeignKey(event_class) == {"game"} \cup DOMAIN on_delete(event_class)

RelatedObjects(f) ==
    CASE f = "game" -> Games
      [] f = "country" -> Countries
      [] OTHER -> Areas

\* The value is a Python string (None, written "None", is not an integer
\* either): written out, a string starts with its quote.
IsStr(v) == Head(ToString(v)) = "\""

IsNone(v) == ToString(v) = ToString(None)

\* isinstance(value, <the class field f points to>)
IsRelated(v, f) == IsStr(v) /\ v \in RelatedObjects(f)

(***************************************************************************)
(* event_class(game=game, **kwargs), models.py line 551: the keyword       *)
(* arguments, over the defaults.  The constructor raises ValueError when a *)
(* ForeignKey is given an object that is neither None nor of the class it  *)
(* points to, and TypeError for a keyword that is not a field.             *)
(***************************************************************************)
New(event_class, fields) ==
    [raised |->
        IF \E f \in ForeignKey(event_class) \cap DOMAIN fields :
                ~IsNone(fields[f]) /\ ~IsRelated(fields[f], f)
        THEN "ValueError"
        ELSE IF DOMAIN fields \ (BaseColumns \cup columns(event_class)) # {}
        THEN "TypeError"
        ELSE "none",
     event |->
        [event_class |-> event_class] @@ fields
            @@ field_defaults(event_class)]

\* The field of the event is None: it was not given and has no other
\* default, or it was given as None.
IsNull(event, f) == f \notin DOMAIN event \/ IsNone(event[f])

\* int(value) on a string: white space at the ends is dropped, a sign may
\* lead, and digits follow, with single underscores between them at most.
\* The strings of the model are ASCII; the white space int() drops from
\* one is the space and the control characters 9 to 13.
White == {" ", "\t", "\n", "\r", "\f", ""}

Digit == {"0", "1", "2", "3", "4", "5", "6", "7", "8", "9"}

Char(s, i) == SubSeq(s, i, i)

Black(s) == {i \in 1..Len(s) : Char(s, i) \notin White}

Least(S) == CHOOSE i \in S : \A k \in S : i <= k

Greatest(S) == CHOOSE i \in S : \A k \in S : k <= i

\* s.strip()
strip(s) ==
    IF Black(s) = {} THEN "" ELSE SubSeq(s, Least(Black(s)), Greatest(Black(s)))

\* The stripped string without its sign, if it has one.
Unsigned(t) ==
    IF Len(t) > 0 /\ Char(t, 1) \in {"+", "-"} THEN Tail(t) ELSE t

IsDigits(u) ==
    /\ Len(u) > 0
    /\ \A i \in 1..Len(u) :
          \/ Char(u, i) \in Digit
          \/ /\ Char(u, i) = "_"
             /\ 1 < i /\ i < Len(u)
             /\ Char(u, i - 1) \in Digit /\ Char(u, i + 1) \in Digit

\* sys.get_int_max_str_digits(), where the interpreter is not told
\* otherwise: int() refuses a string of more digits.
int_max_str_digits == 4300

Digits(u) == {i \in 1..Len(u) : Char(u, i) \in Digit}

\* int(value) succeeds, as the integer field prepares its value for the
\* database: on an integer, and on a string that spells one.
IsNumber(v) ==
    \/ ~IsStr(v)
    \/ /\ ~IsNone(v)
       /\ \E t \in {strip(v)} : \E u \in {Unsigned(t)} :
              IsDigits(u) /\ Cardinality(Digits(u)) <= int_max_str_digits

DigitValue(c) ==
    CASE c = "0" -> 0 [] c = "1" -> 1 [] c = "2" -> 2 [] c = "3" -> 3
      [] c = "4" -> 4 [] c = "5" -> 5 [] c = "6" -> 6 [] c = "7" -> 7
      [] c = "8" -> 8 [] c = "9" -> 9

\* The number a string of digits spells; underscores do not count.
RECURSIVE Value(_)
Value(u) ==
    IF Len(u) = 0 THEN 0
    ELSE IF Char(u, Len(u)) = "_" THEN Value(SubSeq(u, 1, Len(u) - 1))
    ELSE 10 * Value(SubSeq(u, 1, Len(u) - 1)) + DigitValue(Char(u, Len(u)))

Signed(t, n) == IF Char(t, 1) = "-" THEN 0 - n ELSE n

\* The number a stripped numeral spells.
Number(t) == CHOOSE n \in {Signed(t, Value(u)) : u \in {Unsigned(t)}} : TRUE

\* int(value), for a value on which it succeeds.
int(v) ==
    IF IsStr(v) THEN CHOOSE n \in {Number(t) : t \in {strip(v)}} : TRUE ELSE v

\* int(value) < 0, for a value on which int() succeeds.
IsNegative(v) == int(v) < 0

(***************************************************************************)
(* One INSERT of event.save(): the row of one table, with the integer      *)
(* fields and the NOT NULL columns of that table.  The values are prepared *)
(* first, and an integer field raises ValueError on a value that is not a  *)
(* number; then the database refuses, with IntegrityError, a NULL in a NOT *)
(* NULL column and a negative number in a PositiveIntegerField.            *)
(***************************************************************************)
insert(event, integers, not_null) ==
    IF \E f \in integers : ~IsNull(event, f) /\ ~IsNumber(event[f])
    THEN "ValueError"
    ELSE IF \/ \E f \in not_null : IsNull(event, f)
            \/ \E f \in integers : ~IsNull(event, f) /\ IsNegative(event[f])
    THEN "IntegrityError"
    ELSE "none"

\* What the row holds of a field: an integer field its value as a number,
\* a CharField its value as a string.
get_prep_value(event, f) ==
    IF f \notin DOMAIN event \/ IsNull(event, f) THEN None
    ELSE IF f \in BasePositiveIntegerField
                    \cup PositiveIntegerField(event.event_class)
    THEN int(event[f])
    ELSE IF f \in CharField(event.event_class) /\ ~IsStr(event[f])
    THEN ToString(event[f])
    ELSE event[f]

Row(event) == [f \in DOMAIN event |-> get_prep_value(event, f)]

(***************************************************************************)
(* event.save(), models.py line 552: Model.save() of a multi-table child.  *)
(* The result is the store after the call and the exception it raised,     *)
(* "none" when the rows were inserted.  The BaseEvent row goes first, the  *)
(* row of the event's class after it; when either is refused nothing is    *)
(* written.                                                                *)
(***************************************************************************)
save(store, event) ==
    LET cls == event.event_class
        base == insert(event, BasePositiveIntegerField, BaseColumns)
        own == insert(event, PositiveIntegerField(cls),
                      columns(cls) \ nullable(cls))
        refused == IF base # "none" THEN base ELSE own
    IN  [store |-> IF refused = "none" THEN Append(store, Row(event))
                   ELSE store,
         raised |-> refused]

(***************************************************************************)
(* log_event, models.py lines 549-553: the event it made (<< >> when the   *)
(* call or the constructor raised), the store after event.save(), the      *)
(* exception raised, and the value log_event returns when none was.  A     *)
(* keyword argument named event_class or game is a second value for that   *)
(* parameter, and the call itself raises TypeError.  (CHOOSE over a        *)
(* one-element set names a value that is computed once.)                   *)
(***************************************************************************)
Raises(exception) ==
    [made |-> << >>, store |-> log, raised |-> exception, returns |-> << >>]

\* event.save(); return event
Saves(event) ==
    CHOOSE r \in
        { [made |-> <<event>>, store |-> saved.store, raised |-> saved.raised,
           returns |-> IF saved.raised = "none" THEN <<event>> ELSE << >>]
          : saved \in {save(log, event)} } : TRUE

log_event(event_class, g, kwargs) ==
    IF DOMAIN kwargs \cap {"event_class", "game"} # {} THEN Raises("TypeError")
    ELSE CHOOSE r \in
            { IF new.raised # "none" THEN Raises(new.raised)
              ELSE Saves(new.event)
              : new \in {New(event_class, [game |-> g] @@ kwargs)} } : TRUE

(***************************************************************************)
(* The outcome of a recorder call.  `made` is the event log_event made,    *)
(* << >> when the call did not get that far.  `ret` is what the recorder   *)
(* returned: << >> is None, <<e>> is the event e.                          *)
(***************************************************************************)
Idle ==
    [fn |-> "none", sender |-> None, raised |-> "none", made |-> << >>,
     ret |-> << >>]

\* The recorder raised before log_event was called: nothing after the
\* raising statement has run.
Raise(fn, sender, exception) ==
    /\ last' = [fn |-> fn, sender |-> sender, raised |-> exception,
                made |-> << >>, ret |-> << >>]
    /\ UNCHANGED <<game, log, deleted, advances>>

Evaluates(g, kwargs) == g.ok /\ \A k \in DOMAIN kwargs : kwargs[k].ok

Values(kwargs) == [k \in DOMAIN kwargs |-> kwargs[k].v]

\* The statement `log_event(<event_class>, <g>, **<kwargs>)` that ends every
\* recorder: the arguments are evaluated and log_event runs.  When it
\* raises, the exception leaves the recorder; otherwise the value of
\* log_event is dropped, and the recorder returns None by falling off its
\* end.
Call(fn, sender, event_class, g, kwargs) ==
    IF ~Evaluates(g, kwargs)
    THEN Raise(fn, sender, "AttributeError")
    ELSE \E r \in {log_event(event_class, g.v, Values(kwargs))} :
             /\ log' = r.store
             /\ last' = [fn |-> fn, sender |-> sender, raised |-> r.raised,
                         made |-> r.made, ret |-> << >>]
             /\ UNCHANGED <<game, deleted, advances>>

\* assert isinstance(sender, <cls>), "sender must be a <cls>"
AssertionFails(fn, sender) == Raise(fn, sender, "AssertionError")

(***************************************************************************)
(* The recorders, models.py lines 144-539, in the order of the file.       *)
(***************************************************************************)
log_new_unit(sender) ==
    IF ~isinstance(sender, "Unit")
    THEN AssertionFails("log_new_unit", sender)
    ELSE Call("log_new_unit", sender, "NewUnitEvent",
              attr2(sender, "player", "game"),
              [classname |-> Ok("NewUnitEvent"),
               country |-> attr2(sender, "player", "country"),
               type |-> attr(sender, "type"),
               area |-> attr2(sender, "area", "board_area")])

log_disband(sender) ==
    IF ~isinstance(sender, "Unit")
    THEN AssertionFails("log_disband", sender)
    ELSE Call("log_disband", sender, "DisbandEvent",
              attr2(sender, "player", "game"),
              [classname |-> Ok("DisbandEvent"),
               country |-> attr2(sender, "player", "country"),
               type |-> attr(sender, "type"),
               area |-> attr2(sender, "area", "board_area")])

log_order(sender) ==
    IF ~isinstance(sender, "Order")
    THEN AssertionFails("log_order", sender)
    ELSE LET destination ==
                 try_or_None(attr2(sender, "destination", "board_area"))
             subunit == attr(sender, "subunit")
             is_unit == subunit.ok /\ isinstance(subunit.v, "Unit")
             subtype ==
                 IF ~subunit.ok THEN Raised
                 ELSE IF is_unit THEN attr(subunit.v, "type") ELSE Ok(None)
             suborigin ==
                 IF ~subunit.ok THEN Raised
                 ELSE IF is_unit
                      THEN attr2(subunit.v, "area", "board_area")
                      ELSE Ok(None)
             subdestination ==
                 try_or_None(attr2(sender, "subdestination", "board_area"))
         IN  Call("log_order", sender, "OrderEvent",
                  attr3(sender, "unit", "player", "game"),
                  [classname |-> Ok("OrderEvent"),
                   country |-> attr3(sender, "unit", "player", "country"),
                   type |-> attr2(sender, "unit", "type"),
                   origin |-> attr3(sender, "unit", "area", "board_area"),
                   code |-> attr(sender, "code"),
                   destination |-> destination,
                   conversion |-> attr(sender, "conversion"),
                   subtype |-> subtype,
                   suborigin |-> suborigin,
                   subcode |-> attr(sender, "subcode"),
                   subdestination |-> subdestination,
                   subconversion |-> attr(sender, "subconversion")])

log_standoff(sender) ==
    IF ~isinstance(sender, "GameArea")
    THEN AssertionFails("log_standoff", sender)
    ELSE Call("log_standoff", sender, "StandoffEvent",
              attr(sender, "game"),
              [classname |-> Ok("StandoffEvent"),
               area |-> attr(sender, "board_area")])

log_conversion(sender) ==
    IF ~isinstance(sender, "Unit")
    THEN AssertionFails("log_conversion", sender)
    ELSE Call("log_conversion", sender, "ConversionEvent",
              attr2(sender, "player", "game"),
              [classname |-> Ok("ConversionEvent"),
               country |-> attr2(sender, "player", "country"),
               area |-> attr2(sender, "area", "board_area"),
               before |-> attr(sender, "type"),
               after |-> attr(sender, "conversion")])

log_control(sender) ==
    IF ~isinstance(sender, "GameArea")
    THEN AssertionFails("log_control", sender)
    ELSE Call("log_control", sender, "ControlEvent",
              attr2(sender, "player", "game"),
              [classname |-> Ok("ControlEvent"),
               country |-> attr2(sender, "player", "country"),
               area |-> attr(sender, "board_area")])

log_movement(sender) ==
    IF ~isinstance(sender, "Unit")
    THEN AssertionFails("log_movement", sender)
    ELSE Call("log_movement", sender, "MovementEvent",
              attr2(sender, "player", "game"),
              [classname |-> Ok("MovementEvent"),
               country |-> attr2(sender, "player", "country"),
               type |-> attr(sender, "type"),
               origin |-> attr2(sender, "area", "board_area"),
               destination |-> attr2(sender, "destination", "board_area")])

log_retreat(sender) ==
    IF ~isinstance(sender, "Unit")
    THEN AssertionFails("log_retreat", sender)
    ELSE Call("log_retreat", sender, "RetreatEvent",
              attr2(sender, "player", "game"),
              [classname |-> Ok("RetreatEvent"),
               country |-> attr2(sender, "player", "country"),
               type |-> attr(sender, "type"),
               origin |-> attr2(sender, "area", "board_area"),
               destination |-> attr2(sender, "destination", "board_area")])

log_broken_support(sender) ==
    IF ~isinstance(sender, "Unit")
    THEN AssertionFails("log_broken_support", sender)
    ELSE Call("log_broken_support", sender, "UnitEvent",
              attr2(sender, "player", "game"),
              [classname |-> Ok("UnitEvent"),
               country |-> attr2(sender, "player", "country"),
               type |-> attr(sender, "type"),
               area |-> attr2(sender, "area", "board_area"),
               message |-> Ok(item(UNIT_EVENTS, 0, 1))])

log_forced_retreat(sender) ==
    IF ~isinstance(sender, "Unit")
    THEN AssertionFails("log_forced_retreat", sender)
    ELSE Call("log_forced_retreat", sender, "UnitEvent",
              attr2(sender, "player", "game"),
              [classname |-> Ok("UnitEvent"),
               country |-> attr2(sender, "player", "country"),
               type |-> attr(sender, "type"),
               area |-> attr2(sender, "area", "board_area"),
               message |-> Ok(item(UNIT_EVENTS, 1, 1))])

log_unit_surrender(sender) ==
    IF ~isinstance(sender, "Unit")
    THEN AssertionFails("log_unit_surrender", sender)
    ELSE Call("log_unit_surrender", sender, "UnitEvent",
              attr2(sender, "player", "game"),
              [classname |-> Ok("UnitEvent"),
               country |-> attr2(sender, "player", "country"),
               type |-> attr(sender, "type"),
               area |-> attr2(sender, "area", "board_area"),
               message |-> Ok(item(UNIT_EVENTS, 2, 1))])

log_siege_start(sender) ==
    IF ~isinstance(sender, "Unit")
    THEN AssertionFails("log_siege_start", sender)
    ELSE Call("log_siege_start", sender, "UnitEvent",
              attr2(sender, "player", "game"),
              [classname |-> Ok("UnitEvent"),
               country |-> attr2(sender, "player", "country"),
               type |-> attr(sender, "type"),
               area |-> attr2(sender, "area", "board_area"),
               message |-> Ok(item(UNIT_EVENTS, 3, 1))])

log_change_country(sender) ==
    IF ~isinstance(sender, "Unit")
    THEN AssertionFails("log_change_country", sender)
    ELSE Call("log_change_country", sender, "UnitEvent",
              attr2(sender, "player", "game"),
              [classname |-> Ok("UnitEvent"),
               country |-> attr2(sender, "player", "country"),
               type |-> attr(sender, "type"),
               area |-> attr2(sender, "area", "board_area"),
               message |-> Ok(item(UNIT_EVENTS, 4, 1))])

log_to_autonomous(sender) ==
    IF ~isinstance(sender, "Unit")
    THEN AssertionFails("log_to_autonomous", sender)
    ELSE Call("log_to_autonomous", sender, "UnitEvent",
              attr2(sender, "player", "game"),
              [classname |-> Ok("UnitEvent"),
               country |-> attr2(sender, "player", "country"),
               type |-> attr(sender, "type"),
               area |-> attr2(sender, "area", "board_area"),
               message |-> Ok(item(UNIT_EVENTS, 5, 1))])

log_overthrow(sender) ==
    IF ~isinstance(sender, "Revolution")
    THEN AssertionFails("log_overthrow", sender)
    ELSE Call("log_overthrow", sender, "CountryEvent",
              attr(sender, "game"),
              [classname |-> Ok("CountryEvent"),
               country |-> attr(sender, "country")])

log_conquering(sender) ==
    IF ~isinstance(sender, "Player")
    THEN AssertionFails("log_conquering", sender)
    ELSE Call("log_conquering", sender, "CountryEvent",
              attr(sender, "game"),
              [classname |-> Ok("CountryEvent"),
               country |-> attr(sender, "country")])

log_excommunication(sender) ==
    IF ~isinstance(sender, "Player")
    THEN AssertionFails("log_excommunication", sender)
    ELSE Call("log_excommunication", sender, "CountryEvent",
              attr(sender, "game"),
              [classname |-> Ok("CountryEvent"),
               country |-> attr(sender, "country")])

log_elimination(sender) ==
    IF ~isinstance(sender, "Player")
    THEN AssertionFails("log_elimination", sender)
    ELSE Call("log_elimination", sender, "CountryEvent",
              attr(sender, "game"),
              [classname |-> Ok("CountryEvent"),
               country |-> attr(sender, "country")])

log_assassination(sender) ==
    IF ~isinstance(sender, "Player")
    THEN AssertionFails("log_assassination", sender)
    ELSE Call("log_assassination", sender, "CountryEvent",
              attr(sender, "game"),
              [classname |-> Ok("CountryEvent"),
               country |-> attr(sender, "country")])

log_lifted_excommunication(sender) ==
    IF ~isinstance(sender, "Player")
    THEN AssertionFails("log_lifted_excommunication", sender)
    ELSE Call("log_lifted_excommunication", sender, "CountryEvent",
              attr(sender, "game"),
              [classname |-> Ok("CountryEvent"),
               country |-> attr(sender, "country")])

log_assassination_attempt(sender) ==
    IF ~isinstance(sender, "Player")
    THEN AssertionFails("log_assassination_attempt", sender)
    ELSE Call("log_assassination_attempt", sender, "CountryEvent",
              attr(sender, "game"),
              [classname |-> Ok("CountryEvent"),
               country |-> attr(sender, "country")])

log_famine_marker(sender) ==
    IF ~isinstance(sender, "GameArea")
    THEN AssertionFails("log_famine_marker", sender)
    ELSE Call("log_famine_marker", sender, "DisasterEvent",
              attr(sender, "game"),
              [classname |-> Ok("DisasterEvent"),
               area |-> attr(sender, "board_area")])

log_plague(sender) ==
    IF ~isinstance(sender, "GameArea")
    THEN AssertionFails("log_plague", sender)
    ELSE Call("log_plague", sender, "DisasterEvent",
              attr(sender, "game"),
              [classname |-> Ok("DisasterEvent"),
               area |-> attr(sender, "board_area")])

log_rebellion(sender) ==
    IF ~isinstance(sender, "GameArea")
    THEN AssertionFails("log_rebellion", sender)
    ELSE Call("log_rebellion", sender, "DisasterEvent",
              attr(sender, "game"),
              [classname |-> Ok("DisasterEvent"),
               area |-> attr(sender, "board_area")])

log_storm_marker(sender) ==
    IF ~isinstance(sender, "GameArea")
    THEN AssertionFails("log_storm_marker", sender)
    ELSE Call("log_storm_marker", sender, "DisasterEvent",
              attr(sender, "game"),
              [classname |-> Ok("DisasterEvent"),
               area |-> attr(sender, "board_area")])

log_income(sender) ==
    IF ~isinstance(sender, "Player")
    THEN AssertionFails("log_income", sender)
    ELSE Call("log_income", sender, "IncomeEvent",
              attr(sender, "game"),
              [classname |-> Ok("IncomeEvent"),
               country |-> attr(sender, "country")])

log_expense(sender) ==
    IF ~isinstance(sender, "Expense")
    THEN AssertionFails("log_expense", sender)
    ELSE LET unit == attr(sender, "unit")
             has_unit == unit.ok /\ truthy(unit.v)
             _area ==
                 IF ~unit.ok THEN Raised
                 ELSE IF has_unit
                      THEN attr3(sender, "unit", "area", "board_area")
                      ELSE Ok(None)
             _unit_type ==
                 IF ~unit.ok THEN Raised
                 ELSE IF has_unit
                      THEN attr2(sender, "unit", "type")
                      ELSE Ok(None)
         IN  Call("log_expense", sender, "ExpenseEvent",
                  attr2(sender, "player", "game"),
                  [classname |-> Ok("ExpenseEvent"),
                   country |-> attr2(sender, "player", "country"),
                   ducats |-> attr(sender, "ducats"),
                   type |-> attr(sender, "type"),
                   area |-> _area,
                   unit_type |-> _unit_type])

log_uncover(sender) ==
    IF ~isinstance(sender, "Diplomat")
    THEN AssertionFails("log_uncover", sender)
    ELSE Call("log_uncover", sender, "UncoverEvent",
              attr2(sender, "player", "game"),
              [classname |-> Ok("UncoverEvent"),
               country |-> attr2(sender, "player", "country"),
               area |-> attr2(sender, "area", "board_area")])

log_country_event(sender) ==
    IF ~isinstance(sender, "CountryEvent")
    THEN AssertionFails("log_country_event", sender)
    ELSE Call("log_country_event", sender, "CountryEvent",
              attr(sender, "game"),
              [classname |-> Ok("CountryEvent"),
               country |-> attr(sender, "country"),
               message |-> attr(sender, "message")])

log_disaster(sender) ==
    IF ~isinstance(sender, "DisasterEvent")
    THEN AssertionFails("log_disaster", sender)
    ELSE Call("log_disaster", sender, "DisasterEvent",
              attr(sender, "game"),
              [classname |-> Ok("DisasterEvent"),
               area |-> attr2(sender, "area", "board_area"),
               message |-> attr(sender, "message")])

(***************************************************************************)
(* The game engine, outside models.py: a game moves to its next phase, and *)
(* games, countries and areas can be deleted.  Deleting one deletes, by    *)
(* the on_delete rules of the event classes, the events that point to it.  *)
(***************************************************************************)
NextTurn(t) ==
    IF t.phase < 4 THEN [t EXCEPT !.phase = t.phase + 1]
    ELSE IF t.season < 3 THEN [t EXCEPT !.phase = 1, !.season = t.season + 1]
    ELSE [year |-> t.year + 1, season |-> 1, phase |-> 1]

AdvanceGame(g) ==
    /\ advances < MaxAdvance
    /\ g \notin deleted
    /\ game' = [game EXCEPT ![g] = NextTurn(game[g])]
    /\ advances' = advances + 1
    /\ last' = Idle
    /\ UNCHANGED <<log, deleted>>

\* The event points to entity e through a foreign key that cascades.
cascades(event, e) ==
    LET fk == on_delete(event.event_class)
    IN  \E f \in DOMAIN fk \cap DOMAIN event :
            fk[f] = "CASCADE" /\ event[f] = e

Keeps(event, e) == ~cascades(event, e)

Delete(e) ==
    /\ e \notin deleted
    /\ log' = SelectSeq(log, LAMBDA event : Keeps(event, e))
    /\ deleted' = deleted \cup {e}
    /\ last' = Idle
    /\ UNCHANGED <<game, advances>>

Init ==
    /\ game = [g1 |-> [year |-> 1505, season |-> 3, phase |-> 3],
               g2 |-> [year |-> 1505, season |-> 1, phase |-> 2]]
    /\ log = << >>
    /\ last = Idle
    /\ deleted = {}
    /\ advances = 0

(***************************************************************************)
(* Spec: the engine sends every signal with a sender of the signal's own   *)
(* class, and games advance.                                               *)
(***************************************************************************)
Signals ==
    {"u1", "o1", "o2", "o3", "o4", "ga1", "ga3", "p1", "p2", "r1", "e1", "e2",
     "d1", "ce1", "de1"}

InstancesOf(cls) == {o \in Signals : Heap[o].class = cls}

Next ==
    \/ \E sender \in InstancesOf("Unit") : log_new_unit(sender)
    \/ \E sender \in InstancesOf("Unit") : log_disband(sender)
    \/ \E sender \in InstancesOf("Order") : log_order(sender)
    \/ \E sender \in InstancesOf("GameArea") : log_standoff(sender)
    \/ \E sender \in InstancesOf("Unit") : log_conversion(sender)
    \/ \E sender \in InstancesOf("GameArea") : log_control(sender)
    \/ \E sender \in InstancesOf("Unit") : log_movement(sender)
    \/ \E sender \in InstancesOf("Unit") : log_retreat(sender)
    \/ \E sender \in InstancesOf("Unit") : log_broken_support(sender)
    \/ \E sender \in InstancesOf("Unit") : log_forced_retreat(sender)
    \/ \E sender \in InstancesOf("Unit") : log_unit_surrender(sender)
    \/ \E sender \in InstancesOf("Unit") : log_siege_start(sender)
    \/ \E sender \in InstancesOf("Unit") : log_change_country(sender)
    \/ \E sender \in InstancesOf("Unit") : log_to_autonomous(sender)
    \/ \E sender \in InstancesOf("Revolution") : log_overthrow(sender)
    \/ \E sender \in InstancesOf("Player") : log_conquering(sender)
    \/ \E sender \in InstancesOf("Player") : log_excommunication(sender)
    \/ \E sender \in InstancesOf("Player") : log_elimination(sender)
    \/ \E sender \in InstancesOf("Player") : log_assassination(sender)
    \/ \E sender \in InstancesOf("Player") : log_lifted_excommunication(sender)
    \/ \E sender \in InstancesOf("Player") : log_assassination_attempt(sender)
    \/ \E sender \in InstancesOf("GameArea") : log_famine_marker(sender)
    \/ \E sender \in InstancesOf("GameArea") : log_plague(sender)
    \/ \E sender \in InstancesOf("GameArea") : log_rebellion(sender)
    \/ \E sender \in InstancesOf("GameArea") : log_storm_marker(sender)
    \/ \E sender \in InstancesOf("Player") : log_income(sender)
    \/ \E sender \in InstancesOf("Expense") : log_expense(sender)
    \/ \E sender \in InstancesOf("Diplomat") : log_uncover(sender)
    \/ \E sender \in InstancesOf("CountryEvent") : log_country_event(sender)
    \/ \E sender \in InstancesOf("DisasterEvent") : log_disaster(sender)
    \/ \E g \in Games : AdvanceGame(g)

Spec == Init /\ [][Next]_vars

(***************************************************************************)
(* SpecMalformed: every signal arrives with any of a few senders, most of  *)
(* them of another class than the recorder expects, or None.               *)
(***************************************************************************)
Strangers == {None, "r1", "ga1", "p1"}

NextMalformed ==
    \/ \E sender \in Strangers : log_new_unit(sender)
    \/ \E sender \in Strangers : log_disband(sender)
    \/ \E sender \in Strangers : log_order(sender)
    \/ \E sender \in Strangers : log_standoff(sender)
    \/ \E sender \in Strangers : log_conversion(sender)
    \/ \E sender \in Strangers : log_control(sender)
    \/ \E sender \in Strangers : log_movement(sender)
    \/ \E sender \in Strangers : log_retreat(sender)
    \/ \E sender \in Strangers : log_broken_support(sender)
    \/ \E sender \in Strangers : log_forced_retreat(sender)
    \/ \E sender \in Strangers : log_unit_surrender(sender)
    \/ \E sender \in Strangers : log_siege_start(sender)
    \/ \E sender \in Strangers : log_change_country(sender)
    \/ \E sender \in Strangers : log_to_autonomous(sender)
    \/ \E sender \in Strangers : log_overthrow(sender)
    \/ \E sender \in Strangers : log_conquering(sender)
    \/ \E sender \in Strangers : log_excommunication(sender)
    \/ \E sender \in Strangers : log_elimination(sender)
    \/ \E sender \in Strangers : log_assassination(sender)
    \/ \E sender \in Strangers : log_lifted_excommunication(sender)
    \/ \E sender \in Strangers : log_assassination_attempt(sender)
    \/ \E sender \in Strangers : log_famine_marker(sender)
    \/ \E sender \in Strangers : log_plague(sender)
    \/ \E sender \in Strangers : log_rebellion(sender)
    \/ \E sender \in Strangers : log_storm_marker(sender)
    \/ \E sender \in Strangers : log_income(sender)
    \/ \E sender \in Strangers : log_expense(sender)
    \/ \E sender \in Strangers : log_uncover(sender)
    \/ \E sender \in Strangers : log_country_event(sender)
    \/ \E sender \in Strangers : log_disaster(sender)

SpecMalformed == Init /\ [][NextMalformed]_vars

(***************************************************************************)
(* SpecLifecycle: every recorder, and the deletion of games, countries and *)
(* areas.  A signal is only sent for a sender that still exists: nothing   *)
(* it points to has been deleted.                                          *)
(***************************************************************************)
Entities == Games \cup Countries \cup Areas

Exists(o) == Reach(o) \cap deleted = {}

Existing(cls) == {o \in InstancesOf(cls) : Exists(o)}

NextLifecycle ==
    \/ \E sender \in Existing("Unit") : log_new_unit(sender)
    \/ \E sender \in Existing("Unit") : log_disband(sender)
    \/ \E sender \in Existing("Order") : log_order(sender)
    \/ \E sender \in Existing("GameArea") : log_standoff(sender)
    \/ \E sender \in Existing("Unit") : log_conversion(sender)
    \/ \E sender \in Existing("GameArea") : log_control(sender)
    \/ \E sender \in Existing("Unit") : log_movement(sender)
    \/ \E sender \in Existing("Unit") : log_retreat(sender)
    \/ \E sender \in Existing("Unit") : log_broken_support(sender)
    \/ \E sender \in Existing("Unit") : log_forced_retreat(sender)
    \/ \E sender \in Existing("Unit") : log_unit_surrender(sender)
    \/ \E sender \in Existing("Unit") : log_siege_start(sender)
    \/ \E sender \in Existing("Unit") : log_change_country(sender)
    \/ \E sender \in Existing("Unit") : log_to_autonomous(sender)
    \/ \E sender \in Existing("Revolution") : log_overthrow(sender)
    \/ \E sender \in Existing("Player") : log_conquering(sender)
    \/ \E sender \in Existing("Player") : log_excommunication(sender)
    \/ \E sender \in Existing("Player") : log_elimination(sender)
    \/ \E sender \in Existing("Player") : log_assassination(sender)
    \/ \E sender \in Existing("Player") : log_lifted_excommunication(sender)
    \/ \E sender \in Existing("Player") : log_assassination_attempt(sender)
    \/ \E sender \in Existing("GameArea") : log_famine_marker(sender)
    \/ \E sender \in Existing("GameArea") : log_plague(sender)
    \/ \E sender \in Existing("GameArea") : log_rebellion(sender)
    \/ \E sender \in Existing("GameArea") : log_storm_marker(sender)
    \/ \E sender \in Existing("Player") : log_income(sender)
    \/ \E sender \in Existing("Expense") : log_expense(sender)
    \/ \E sender \in Existing("Diplomat") : log_uncover(sender)
    \/ \E sender \in Existing("CountryEvent") : log_country_event(sender)
    \/ \E sender \in Existing("DisasterEvent") : log_disaster(sender)
    \/ \E e \in Entities : Delete(e)

SpecLifecycle == Init /\ [][NextLifecycle]_vars

(***************************************************************************)
(* What the claims speak of.                                               *)
(***************************************************************************)
\* The class of the sender each recorder is bound to.
Expects(fn) ==
    CASE fn \in {"log_new_unit", "log_disband", "log_conversion",
                 "log_movement", "log_retreat", "log_broken_support",
                 "log_forced_retreat", "log_unit_surrender", "log_siege_start",
                 "log_change_country", "log_to_autonomous"} -> "Unit"
      [] fn = "log_order" -> "Order"
      [] fn \in {"log_standoff", "log_control", "log_famine_marker",
                 "log_plague", "log_rebellion", "log_storm_marker"} -> "GameArea"
      [] fn = "log_overthrow" -> "Revolution"
      [] fn \in {"log_conquering", "log_excommunication", "log_elimination",
                 "log_assassination", "log_lifted_excommunication",
                 "log_assassination_attempt", "log_income"} -> "Player"
      [] fn = "log_expense" -> "Expense"
      [] fn = "log_uncover" -> "Diplomat"
      [] fn = "log_country_event" -> "CountryEvent"
      [] fn = "log_disaster" -> "DisasterEvent"
      [] OTHER -> "no recorder"

ClassOf(o) == IF o \in DOMAIN Heap THEN Heap[o].class ELSE "NoneType"

\* The board area of a game area, or None for None.
BoardArea(ga) == IF ga = None THEN None ELSE Heap[ga].board_area

\* The latest operation was a recorder call with a sender of its class.
Valid == last.fn # "none" /\ ClassOf(last.sender) = Expects(last.fn)

\* The latest operation was such a call of recorder fn.
ValidCall(fn) == last.fn = fn /\ Valid

\* The event the latest call made; only read when there is one.
Made == last.made[1]

\* The event saved last.
Newest == log[Len(log)]

\* The latest call returned, and the row of the event it made is the newest
\* of the log.
Recorded ==
    /\ last.raised = "none"
    /\ Len(last.made) = 1
    /\ Len(log) > 0
    /\ Newest = Row(Made)

IsPrefix(s, t) == Len(s) <= Len(t) /\ SubSeq(t, 1, Len(s)) = s

(***************************************************************************)
(* C1.  A recorder called with a sender of its class makes an event that   *)
(* carries the year, season and phase its game has at that moment, and     *)
(* that event is saved.                                                    *)
(***************************************************************************)
C1_HeaderIsCurrentTurn ==
    Valid =>
        /\ Len(last.made) = 1
        /\ {"year", "season", "phase"} \subseteq DOMAIN Made
        /\ Made.year = game[Made.game].year
        /\ Made.season = game[Made.game].season
        /\ Made.phase = game[Made.game].phase
        /\ Recorded

(***************************************************************************)
(* C2.  A recorder called with a sender of its own class returns, and the  *)
(* log after the call is the log before it with exactly one event added at *)
(* its end; whatever else happens in between, the events already in the    *)
(* log stay as they are, in their order.                                   *)
(***************************************************************************)
C2_OneEventPerCall ==
    [][ /\ IsPrefix(log, log')
        /\ (last'.fn # "none" /\ ClassOf(last'.sender) = Expects(last'.fn))
              => /\ last'.raised = "none"
                 /\ Len(log') = Len(log) + 1 ]_vars

(***************************************************************************)
(* C3.  A recorder called with a sender that is not of its own class       *)
(* raises AssertionError, and the log is left as it was.                   *)
(***************************************************************************)
C3_MalformedSenderFails ==
    [][ (last'.fn # "none" /\ ClassOf(last'.sender) # Expects(last'.fn))
            => /\ last'.raised = "AssertionError"
               /\ last'.made = << >>
               /\ log' = log ]_vars

C3_Witness ==
    /\ last.fn = "log_movement"
    /\ last.sender = "ga1"
    /\ last.raised = "AssertionError"
    /\ last.made = << >>
    /\ log = << >>

(***************************************************************************)
(* C4.  The OrderEvent log_order makes for an order whose second unit is   *)
(* not a Unit has subtype, suborigin, subcode, subdestination and          *)
(* subconversion all None, whatever the order's own sub-order fields hold; *)
(* and destination is None too when the order has no destination.          *)
(***************************************************************************)
C4_NoPartialSubOrder ==
    (ValidCall("log_order") /\ ClassOf(Heap[last.sender].subunit) # "Unit")
        => /\ Len(last.made) = 1
           /\ Made.subtype = None
           /\ Made.suborigin = None
           /\ Made.subcode = None
           /\ Made.subdestination = None
           /\ Made.subconversion = None
           /\ (Heap[last.sender].destination = None
                 => Made.destination = None)

(***************************************************************************)
(* C5.  For an order whose second unit is a Unit, log_order records an     *)
(* OrderEvent that has that unit's type as subtype and the board area of   *)
(* that unit's area as suborigin; subcode and subconversion are the        *)
(* order's, and subdestination is the board area of the order's            *)
(* subdestination, or None when it has none.                               *)
(***************************************************************************)
SubOrderOfLiveUnit(event, order) ==
    LET subunit == Heap[order.subunit]
    IN  /\ event.event_class = "OrderEvent"
        /\ event.subtype = subunit.type
        /\ event.suborigin = BoardArea(subunit.area)
        /\ event.subcode = order.subcode
        /\ event.subdestination = BoardArea(order.subdestination)
        /\ event.subconversion = order.subconversion

C5_SubOrderOfLiveUnit ==
    (ValidCall("log_order") /\ ClassOf(Heap[last.sender].subunit) = "Unit")
        => Recorded /\ SubOrderOfLiveUnit(Newest, Heap[last.sender])

\* What C5 says of the recorded event holds of the event log_order makes.
MadeSubOrderOfLiveUnit ==
    (ValidCall("log_order") /\ ClassOf(Heap[last.sender].subunit) = "Unit")
        => Len(last.made) = 1 /\ SubOrderOfLiveUnit(Made, Heap[last.sender])

(***************************************************************************)
(* C6.  For an expense, log_expense records an ExpenseEvent that has area  *)
(* and unit_type both None when the expense has no unit, and the board     *)
(* area and the type of the unit when it has one, never one without the    *)
(* other; country, ducats and type are those of the expense.               *)
(***************************************************************************)
ExpenseUnitPair(event, expense) ==
    /\ event.event_class = "ExpenseEvent"
    /\ (event.area = None) <=> (event.unit_type = None)
    /\ expense.unit = None => event.area = None /\ event.unit_type = None
    /\ expense.unit # None
         => /\ event.area = BoardArea(Heap[expense.unit].area)
            /\ event.unit_type = Heap[expense.unit].type
    /\ event.country = Heap[expense.player].country
    /\ event.ducats = expense.ducats
    /\ event.type = expense.type

C6_ExpenseUnitPair ==
    ValidCall("log_expense")
        => Recorded /\ ExpenseUnitPair(Newest, Heap[last.sender])

\* What C6 says of the recorded event holds of the event log_expense makes.
MadeExpenseUnitPair ==
    ValidCall("log_expense")
        => Len(last.made) = 1 /\ ExpenseUnitPair(Made, Heap[last.sender])

(***************************************************************************)
(* C7.  Each of the six unit-condition recorders makes a UnitEvent with    *)
(* the unit's country, type and board area, and with the code of its own   *)
(* condition in UNIT_EVENTS as message: a member of the codes 0..5.        *)
(***************************************************************************)
UnitCondition ==
    [log_broken_support |-> 0, log_forced_retreat |-> 1,
     log_unit_surrender |-> 2, log_siege_start |-> 3,
     log_change_country |-> 4, log_to_autonomous |-> 5]

C7_UnitMessageIsCode ==
    (Valid /\ last.fn \in DOMAIN UnitCondition)
        => LET unit == Heap[last.sender]
           IN  /\ Len(last.made) = 1
               /\ Made.event_class = "UnitEvent"
               /\ Made.country = Heap[unit.player].country
               /\ Made.type = unit.type
               /\ Made.area = BoardArea(unit.area)
               /\ ~IsStr(Made.message)
               /\ Made.message = item(UNIT_EVENTS, UnitCondition[last.fn], 0)
               /\ Made.message \in Codes(UNIT_EVENTS)

(***************************************************************************)
(* C8.  A recorder called with a sender of its class returns, and hands    *)
(* back the event it has just saved.                                       *)
(***************************************************************************)
C8_ReturnsTheEvent ==
    Valid => Recorded /\ last.ret = <<Newest>>

(***************************************************************************)
(* C9.  An event leaves the log only when its game is deleted: deleting a  *)
(* game removes the events of that game and no others, and deleting a      *)
(* country or an area removes nothing.  No recorder call puts an event     *)
(* into the log (NothingIsRecorded), so no deletion in SpecLifecycle has   *)
(* an event to remove or to keep.                                          *)
(***************************************************************************)
C9_OnlyGameDeletionRemoves ==
    [][ /\ deleted' = deleted => IsPrefix(log, log')
        /\ \A e \in deleted' \ deleted :
              log' = SelectSeq(log,
                        LAMBDA event : ~(e \in Games /\ event.game = e)) ]_vars

\* The log is empty in every state the recorders and the engine can reach.
NothingIsRecorded == log = << >>

(***************************************************************************)
(* C10.  Each of the seven country-condition recorders makes a             *)
(* CountryEvent whose message is the code of its own condition in          *)
(* COUNTRY_EVENTS, and each of the four disaster recorders a DisasterEvent *)
(* whose message is the code of its own condition in DISASTER_EVENTS.      *)
(***************************************************************************)
CountryCondition ==
    [log_overthrow |-> 0, log_conquering |-> 1, log_excommunication |-> 2,
     log_elimination |-> 3, log_assassination |-> 4,
     log_lifted_excommunication |-> 5, log_assassination_attempt |-> 6]

DisasterCondition ==
    [log_famine_marker |-> 0, log_plague |-> 1, log_rebellion |-> 2,
     log_storm_marker |-> 3]

C10_ConditionMessageIsCode ==
    /\ (Valid /\ last.fn \in DOMAIN CountryCondition)
          => /\ Len(last.made) = 1
             /\ Made.event_class = "CountryEvent"
             /\ "message" \in DOMAIN Made
             /\ ~IsStr(Made.message)
             /\ Made.message
                  = item(COUNTRY_EVENTS, CountryCondition[last.fn], 0)
    /\ (Valid /\ last.fn \in DOMAIN DisasterCondition)
          => /\ Len(last.made) = 1
             /\ Made.event_class = "DisasterEvent"
             /\ "message" \in DOMAIN Made
             /\ ~IsStr(Made.message)
             /\ Made.message
                  = item(DISASTER_EVENTS, DisasterCondition[last.fn], 0)

(***************************************************************************)
(* C11.  The IncomeEvent log_income makes has both of its fields set:      *)
(* country is the player's country, and ducats is a non-negative integer.  *)
(***************************************************************************)
C11_IncomeHasDucats ==
    ValidCall("log_income")
        => /\ Len(last.made) = 1
           /\ Made.event_class = "IncomeEvent"
           /\ Made.country = Heap[last.sender].country
           /\ "ducats" \in DOMAIN Made
           /\ Made.ducats \in Nat

====
